---- MODULE Spec2Model ----
(***************************************************************************)
(* A model of rw_lease's RWLease<T, A>: one atomic word whose high bit is  *)
(* the writer-intent flag and whose remaining bits count the readers, the  *)
(* protected value, and the guards (ReadGuard, DrainGuard, WriteGuard)     *)
(* handed out by read(), write() and DrainGuard::upgrade().  Every atomic  *)
(* access of src/src/lib.rs is one step; read() is two steps (its load and *)
(* its compare_exchange_weak), so other threads interleave between them.   *)
(***************************************************************************)
EXTENDS Integers, FiniteSets, Sequences, TLC

\* ------------------------------------------------------------------ bounds

\* Width W of the atomic word A::Prim (the tests use u8 and usize).
WordBits == 2
\* Number of threads sharing one RWLease.
NumThreads == 2
\* Most guards of one kind a single thread keeps alive at once.
MaxHeld == 1
\* The successful read() calls the history counters count before they stop.
MaxCount == 2

Threads == 1..NumThreads
\* The protected value T: the two values tests::solo_writing stores.
Values == {123, 124}

\* ------------------------------------------------------- the atomic word

\* 2^WordBits: A::Prim arithmetic is modulo this.
Modulus == 2 ^ WordBits
\* <A::Prim as Integer>::ZERO, ::ONE and ::MAX
ZERO == 0
ONE == 1
MAX == Modulus - 1
\* <<A::Prim as AddSign>::Signed as Integer>::MIN.drop_sign(): the high bit.
mask == 2 ^ (WordBits - 1)
Words == 0..MAX

RECURSIVE BitAnd(_, _, _)
\* a & b on the low n bits.
BitAnd(a, b, n) ==
    IF n = 0 THEN 0
    ELSE ((a % 2) * (b % 2)) + 2 * BitAnd(a \div 2, b \div 2, n - 1)

RECURSIVE BitOr(_, _, _)
\* a | b on the low n bits.
BitOr(a, b, n) ==
    IF n = 0 THEN 0
    ELSE (IF (a % 2) + (b % 2) > 0 THEN 1 ELSE 0)
         + 2 * BitOr(a \div 2, b \div 2, n - 1)

\* !a on a word of WordBits bits.
BitNot(a) == MAX - a

\* The new word of AtomicInt::fetch_or, fetch_and and (wrapping) fetch_sub.
fetch_or(w, m) == BitOr(w, m, WordBits)
fetch_and(w, m) == BitAnd(w, m, WordBits)
fetch_sub(w, n) == (w - n + Modulus) % Modulus

\* Readings of the word (spec.md section 3): the flag and the reader count.
FlagSet(w) == BitAnd(w, mask, WordBits) = mask
Count(w) == BitAnd(w, BitNot(mask), WordBits)
MaxReaders == mask - 1

\* ----------------------------------------------------- the pure branches

\* poll_read that tests the reader count alone and overlooks the flag.
poll_read_branch_noflag(current) ==
    IF BitAnd(current, BitNot(mask), WordBits) < mask - 1 THEN "cas"
    ELSE IF BitAnd(current, mask, WordBits) # mask THEN "Readers"
    ELSE "Writer"

\* poll_read whose bound on the new word is off by one: the increment of a
\* full count reaches the flag.
poll_read_branch_carry(current) ==
    IF current < MAX
    THEN LET new == current + ONE
         IN  IF new <= mask THEN "cas"
             ELSE IF BitAnd(current, mask, WordBits) # mask THEN "Readers"
             ELSE "Writer"
    ELSE "Writer"

\* poll_read after its load: attempt the CAS, or fail at once.
poll_read_branch(current) ==
    IF current < MAX
    THEN LET new == current + ONE
         IN  IF new < mask THEN "cas"
             ELSE IF BitAnd(current, mask, WordBits) # mask THEN "Readers"
             ELSE "Writer"
    ELSE "Writer"

\* compare_exchange_weak(current, new): TRUE is a successful exchange.  It
\* fails when the word differs and is allowed to fail when it does not.
compare_exchange_weak(actual, current) ==
    IF actual = current THEN {TRUE, FALSE} ELSE {FALSE}

\* poll_read that tries its CAS again when it fails.
after_cas_retry(ok) == IF ok THEN "idle" ELSE "cas"

\* poll_read after its CAS: map(drop) / map_err(LostRace) and return; there
\* is no second attempt.
after_cas(ok) == "idle"

\* poll_write_mark that hands a second caller a DrainGuard as well.
poll_write_mark_always(ret) ==
    IF ret = ZERO THEN "Ready" ELSE "NotReady"

\* poll_write_mark that takes any word without the flag for an idle one.
poll_write_mark_eager(ret) ==
    IF BitAnd(ret, mask, WordBits) # mask THEN "Ready" ELSE "Writer"

\* poll_write_mark that looks at the reader count and not at the flag.
poll_write_mark_stale(ret) ==
    IF BitAnd(ret, BitNot(mask), WordBits) = ZERO THEN "Ready"
    ELSE IF BitAnd(ret, mask, WordBits) # mask THEN "NotReady"
    ELSE "Writer"

\* poll_write_mark's classification of the word fetch_or returned.
poll_write_mark(ret) ==
    IF ret = ZERO THEN "Ready"
    ELSE IF BitAnd(ret, mask, WordBits) # mask THEN "NotReady"
    ELSE "Writer"

\* poll_write_upgrade that tests the flag and not the reader count.
poll_write_upgrade_flag(loaded) == BitAnd(loaded, mask, WordBits) = mask

\* poll_write_upgrade that compares with the idle word instead of the flag.
poll_write_upgrade_zero(loaded) == ZERO = loaded

\* poll_write_upgrade: the loaded word is exactly the flag.
poll_write_upgrade(loaded) == mask = loaded

\* upgrade() without the forget: the DrainGuard's drop handler runs.
mem_forget_missing(w) == fetch_and(w, BitNot(mask))

\* upgrade()'s core::mem::forget(self): the drop handler is skipped and the
\* word stays as it is.
mem_forget(w) == w

\* done_reading that releases nothing when a writer is draining.
done_reading_skip(w) ==
    IF BitAnd(w, mask, WordBits) = mask THEN w ELSE fetch_sub(w, ONE)

\* done_reading that writes back the decremented count without the flag.
done_reading_count(w) == fetch_sub(BitAnd(w, BitNot(mask), WordBits), ONE)

\* done_reading: the word its fetch_sub of one leaves.
done_reading(w) == fetch_sub(w, ONE)

\* done_writing with the mask not inverted: the flag stays.
done_writing_keep(w) == fetch_and(w, mask)

\* done_writing: the word its fetch_and of !mask leaves.
done_writing(w) == fetch_and(w, BitNot(mask))

\* DrainGuard's drop with the mask not inverted: the flag stays.
drain_drop_keep(w) == fetch_and(w, mask)

\* DrainGuard's drop that stores the idle word.
drain_drop_zero(w) == ZERO

\* DrainGuard's drop: the word its fetch_and of !mask leaves.
drain_drop(w) == fetch_and(w, BitNot(mask))

\* ------------------------------------------------------------------ state

VARIABLES
    atomic,     \* RWLease.atomic
    value,      \* RWLease.value
    pc,         \* per thread: "idle", or "cas" between read()'s load and CAS
    current,    \* per thread: the word poll_read loaded
    raced,      \* per thread: the word changed since poll_read's load
    readers,    \* per thread: live ReadGuards
    drainReady, \* per thread: live DrainGuards with ready = true
    drainWait,  \* per thread: live DrainGuards with ready = false
    writers,    \* per thread: live WriteGuards
    last,       \* the latest step: its thread, call, result and the word before
    hist,       \* successful read()s and ReadGuard drops while counted
    reopen,     \* a DrainGuard was dropped; the first read() to start after it
    committed,  \* RWLease.value as new() or the last dropped WriteGuard left it
    refused     \* a read() of another thread returned Blocked::Writer since the
                \* live not-ready DrainGuard was made

vars == <<atomic, value, pc, current, raced, readers, drainReady, drainWait,
          writers, last, hist, reopen, committed, refused>>

RECURSIVE SumTo(_, _)
SumTo(f, n) == IF n = 0 THEN 0 ELSE f[n] + SumTo(f, n - 1)
\* The guards of one kind that are live, over all threads.
Sum(f) == SumTo(f, NumThreads)

LiveReaders == Sum(readers)
LiveDrains == Sum(drainReady) + Sum(drainWait)
LiveWriters == Sum(writers)

\* The record of a step: arg is "ready" / "wait" for a DrainGuard's flag and
\* "next" for the first read() after a DrainGuard's drop; raced is whether the
\* word changed between a read()'s load and its CAS.
Step(t, op, res, arg, r) ==
    [thread |-> t, op |-> op, res |-> res, prev |-> atomic, arg |-> arg,
     raced |-> r, val |-> 0]
Done(t, op, res) == Step(t, op, res, "none", FALSE)
Flag(ready) == IF ready THEN "ready" ELSE "wait"
NoReopen == [state |-> "none", thread |-> 0]

\* Every thread between its load and its CAS sees the word change under it.
Race(t, new) ==
    [u \in Threads |->
        IF u # t /\ pc[u] = "cas" /\ new # atomic THEN TRUE ELSE raced[u]]

\* RWLease::new(123), as the tests make it: A::default() is the zero word.
Init ==
    /\ atomic = ZERO
    /\ value = 123
    /\ pc = [t \in Threads |-> "idle"]
    /\ current = [t \in Threads |-> 0]
    /\ raced = [t \in Threads |-> FALSE]
    /\ readers = [t \in Threads |-> 0]
    /\ drainReady = [t \in Threads |-> 0]
    /\ drainWait = [t \in Threads |-> 0]
    /\ writers = [t \in Threads |-> 0]
    /\ last = [thread |-> 0, op |-> "new", res |-> "Ok", prev |-> ZERO,
               arg |-> "none", raced |-> FALSE, val |-> 0]
    /\ hist = [acq |-> 0, rel |-> 0, counting |-> TRUE]
    /\ reopen = NoReopen
    /\ committed = value
    /\ refused = FALSE

\* ---------------------------------------------------------------- actions

\* read(), first step: poll_read loads the word and either goes on to the
\* CAS or returns Blocked::Readers / Blocked::Writer.
read_load(t) ==
    /\ pc[t] = "idle"
    /\ readers[t] < MaxHeld
    /\ LET branch == poll_read_branch(atomic)
           next == reopen.state = "dropped"
       IN  IF branch = "cas"
           THEN /\ pc' = [pc EXCEPT ![t] = "cas"]
                /\ current' = [current EXCEPT ![t] = atomic]
                /\ raced' = [raced EXCEPT ![t] = FALSE]
                /\ last' = Done(t, "read", "load")
                /\ reopen' = IF next THEN [state |-> "reading", thread |-> t]
                              ELSE reopen
           ELSE /\ last' = Step(t, "read", branch, IF next THEN "next" ELSE "none", FALSE)
                /\ reopen' = IF next THEN NoReopen ELSE reopen
                /\ UNCHANGED <<pc, current, raced>>
    /\ refused' = (refused \/ (poll_read_branch(atomic) = "Writer" /\
                                  \E w \in Threads : w # t /\ drainWait[w] > 0))
    /\ UNCHANGED <<atomic, value, readers, drainReady, drainWait, writers, hist,
                   committed>>

\* read(), second step: compare_exchange_weak(current, current + 1); Ok makes
\* a ReadGuard, a failure is Blocked::LostRace.
read_cas(t) ==
    /\ pc[t] = "cas"
    /\ LET next == reopen = [state |-> "reading", thread |-> t]
           arg == IF next THEN "next" ELSE "none"
       IN  /\ \E ok \in compare_exchange_weak(atomic, current[t]) :
                 /\ pc' = [pc EXCEPT ![t] = after_cas(ok)]
                 /\ IF ok
                    THEN /\ atomic' = current[t] + ONE
                         /\ readers' = [readers EXCEPT ![t] = @ + 1]
                         /\ raced' = [Race(t, current[t] + ONE) EXCEPT ![t] = FALSE]
                         /\ last' = Step(t, "read", "Ok", arg, raced[t])
                         /\ hist' = IF hist.counting /\ hist.acq < MaxCount
                                    THEN [hist EXCEPT !.acq = @ + 1]
                                    ELSE [hist EXCEPT !.counting = FALSE]
                    ELSE /\ last' = Step(t, "read", "LostRace", arg, raced[t])
                         /\ raced' = [raced EXCEPT ![t] = FALSE]
                         /\ UNCHANGED <<atomic, readers, hist>>
           /\ reopen' = IF next THEN NoReopen ELSE reopen
    /\ current' = [current EXCEPT ![t] = 0]
    /\ UNCHANGED <<value, drainReady, drainWait, writers, committed, refused>>

\* write(): poll_write_mark's fetch_or of the flag, then a DrainGuard
\* (ready or not) or Err(Blocked::Writer).
write(t) ==
    /\ pc[t] = "idle"
    /\ drainReady[t] + drainWait[t] < MaxHeld
    /\ LET ret == atomic
           new == fetch_or(atomic, mask)
           res == poll_write_mark(ret)
       IN  /\ atomic' = new
           /\ raced' = Race(t, new)
           /\ drainReady' = [drainReady EXCEPT ![t] = IF res = "Ready" THEN @ + 1 ELSE @]
           /\ drainWait' = [drainWait EXCEPT ![t] = IF res = "NotReady" THEN @ + 1 ELSE @]
           /\ last' = Done(t, "write", res)
           /\ refused' = (refused /\ res = "Writer")
    /\ UNCHANGED <<value, pc, current, readers, writers, hist, reopen, committed>>

\* DrainGuard::upgrade(self): a ready guard converts at once, another loads
\* the word; Ok forgets the DrainGuard and makes a WriteGuard, Err hands the
\* DrainGuard back.
upgrade(t, ready) ==
    /\ pc[t] = "idle"
    /\ IF ready THEN drainReady[t] > 0 ELSE drainWait[t] > 0
    /\ writers[t] < MaxHeld
    /\ IF ready \/ poll_write_upgrade(atomic)
       THEN /\ atomic' = mem_forget(atomic)
            /\ raced' = Race(t, mem_forget(atomic))
            /\ drainReady' = [drainReady EXCEPT ![t] = IF ready THEN @ - 1 ELSE @]
            /\ drainWait' = [drainWait EXCEPT ![t] = IF ready THEN @ ELSE @ - 1]
            /\ writers' = [writers EXCEPT ![t] = @ + 1]
            /\ last' = Step(t, "upgrade", "Ok", Flag(ready), FALSE)
       ELSE /\ last' = Step(t, "upgrade", "Err", Flag(ready), FALSE)
            /\ UNCHANGED <<atomic, raced, drainReady, drainWait, writers>>
    /\ UNCHANGED <<value, pc, current, readers, hist, reopen, committed,
                   refused>>

\* Drop for DrainGuard (never upgraded): fetch_and clears the flag.
drop_drain(t, ready) ==
    /\ pc[t] = "idle"
    /\ IF ready THEN drainReady[t] > 0 ELSE drainWait[t] > 0
    /\ LET new == drain_drop(atomic)
       IN  /\ atomic' = new
           /\ raced' = Race(t, new)
    /\ drainReady' = [drainReady EXCEPT ![t] = IF ready THEN @ - 1 ELSE @]
    /\ drainWait' = [drainWait EXCEPT ![t] = IF ready THEN @ ELSE @ - 1]
    /\ last' = Step(t, "drop_drain", "done", Flag(ready), FALSE)
    /\ reopen' = [state |-> "dropped", thread |-> 0]
    /\ refused' = FALSE
    /\ UNCHANGED <<value, pc, current, readers, writers, hist, committed>>

\* Drop for ReadGuard: done_reading's fetch_sub of one.
drop_read(t) ==
    /\ pc[t] = "idle"
    /\ readers[t] > 0
    /\ LET new == done_reading(atomic)
       IN  /\ atomic' = new
           /\ raced' = Race(t, new)
    /\ readers' = [readers EXCEPT ![t] = @ - 1]
    /\ last' = Done(t, "drop_read", "done")
    /\ hist' = IF hist.counting THEN [hist EXCEPT !.rel = @ + 1] ELSE hist
    /\ UNCHANGED <<value, pc, current, drainReady, drainWait, writers, reopen,
                   committed, refused>>

\* Drop for WriteGuard: done_writing's fetch_and clears the flag.
drop_write(t) ==
    /\ pc[t] = "idle"
    /\ writers[t] > 0
    /\ LET new == done_writing(atomic)
       IN  /\ atomic' = new
           /\ raced' = Race(t, new)
    /\ writers' = [writers EXCEPT ![t] = @ - 1]
    /\ last' = Done(t, "drop_write", "done")
    /\ committed' = value
    /\ refused' = FALSE
    /\ UNCHANGED <<value, pc, current, readers, drainReady, drainWait, hist, reopen>>

\* DerefMut for WriteGuard: a store to the protected value.
deref_mut(t, v) ==
    /\ pc[t] = "idle"
    /\ writers[t] > 0
    /\ value' = v
    /\ last' = [Done(t, "deref_mut", "done") EXCEPT !.val = v]
    /\ UNCHANGED <<atomic, pc, current, raced, readers, drainReady, drainWait,
                   writers, hist, reopen, committed, refused>>

\* Deref for ReadGuard: a load of the protected value.
deref(t) ==
    /\ pc[t] = "idle"
    /\ readers[t] > 0
    /\ last' = [Done(t, "deref", "done") EXCEPT !.val = value]
    /\ UNCHANGED <<atomic, value, pc, current, raced, readers, drainReady,
                   drainWait, writers, hist, reopen, committed, refused>>

Next ==
    \E t \in Threads :
        \/ read_load(t)
        \/ read_cas(t)
        \/ write(t)
        \/ \E ready \in BOOLEAN : upgrade(t, ready)
        \/ \E ready \in BOOLEAN : drop_drain(t, ready)
        \/ drop_read(t)
        \/ drop_write(t)
        \/ \E v \in Values : deref_mut(t, v)
        \/ deref(t)

Spec == Init /\ [][Next]_vars

\* RWLease::new_with_state(state, v) with a ReadGuard made by ReadGuard::new
\* beside it: every word, whatever guards stand behind it.
InitSeeded ==
    /\ atomic \in Words
    /\ value \in Values
    /\ pc = [t \in Threads |-> "idle"]
    /\ current = [t \in Threads |-> 0]
    /\ raced = [t \in Threads |-> FALSE]
    /\ readers = [t \in Threads |-> IF t = 1 THEN 1 ELSE 0]
    /\ drainReady = [t \in Threads |-> 0]
    /\ drainWait = [t \in Threads |-> 0]
    /\ writers = [t \in Threads |-> 0]
    /\ last = [thread |-> 0, op |-> "new", res |-> "Ok", prev |-> atomic,
               arg |-> "none", raced |-> FALSE, val |-> 0]
    /\ hist = [acq |-> 0, rel |-> 0, counting |-> FALSE]
    /\ reopen = NoReopen
    /\ committed = value
    /\ refused = FALSE

SeededSpec == InitSeeded /\ [][Next]_vars

\* The calls of a writer that never abandons its DrainGuard.
NextLive ==
    \E t \in Threads :
        \/ read_load(t)
        \/ read_cas(t)
        \/ write(t)
        \/ \E ready \in BOOLEAN : upgrade(t, ready)
        \/ drop_read(t)
        \/ drop_write(t)

\* Every thread goes on: a read() in progress reaches its CAS, a ReadGuard is
\* dropped in the end, and the holder of a DrainGuard keeps calling upgrade().
Fairness ==
    \A t \in Threads :
        /\ WF_vars(read_cas(t))
        /\ WF_vars(drop_read(t))
        /\ WF_vars(upgrade(t, TRUE))
        /\ WF_vars(upgrade(t, FALSE))

LiveSpec == Init /\ [][NextLive]_vars /\ Fairness

\* ----------------------------------------------------------------- claims

\* A writer-side guard (DrainGuard or WriteGuard) is live.
WriterPending == LiveDrains + LiveWriters > 0
\* The latest step is a read() that returned.
ReadReturned == last.op = "read" /\ last.res # "load"

\* C1: mutual exclusion.  In every reachable state a live WriteGuard is the
\* only WriteGuard and no ReadGuard is live beside it.
C1_MutualExclusion ==
    LiveWriters > 0 => (LiveWriters = 1 /\ LiveReaders = 0)

\* C1 witness: the holder of a WriteGuard stores to the value while another
\* thread is between the load and the CAS of a read().
C1_Witness ==
    /\ LiveWriters = 1
    /\ last.op = "deref_mut"
    /\ \E t \in Threads : t # last.thread /\ pc[t] = "cas"

\* C2 as stated: while a writer-side guard is live, every read() that returns
\* returns Err(Blocked::Writer).
C2_Original ==
    (WriterPending /\ ReadReturned) => last.res = "Writer"

\* C2 as amended: while a writer-side guard is live no read() returns Ok; a
\* read() that loads the word then returns Blocked::Writer, and the only other
\* outcome is Blocked::LostRace, of a read() whose load came before the
\* write() and whose CAS found the word changed.
C2_NoNewReaders ==
    (WriterPending /\ last.op = "read") =>
        \/ last.res = "Writer"
        \/ (last.res = "LostRace" /\ last.raced)

\* C2 witness: a read() returns Blocked::Writer while a DrainGuard is waiting
\* for a ReadGuard to drop.
C2_Witness ==
    /\ LiveDrains = 1 /\ LiveReaders > 0
    /\ last.op = "read" /\ last.res = "Writer"

\* C3 as stated: every write() yields a DrainGuard, ready or not.
C3_Original ==
    last.op = "write" => last.res \in {"Ready", "NotReady"}

\* C3 as amended: every write() leaves the flag set and the count untouched;
\* it yields a DrainGuard exactly when the flag was clear before (ready exactly
\* when the word was zero) and returns Err(Blocked::Writer) when it was set.
C3_WriteOutcome ==
    last.op = "write" =>
        /\ FlagSet(atomic)
        /\ Count(atomic) = Count(last.prev)
        /\ (last.res = "Writer") = FlagSet(last.prev)
        /\ (last.res = "Ready") = (last.prev = 0)
        /\ (last.res = "NotReady") = (~FlagSet(last.prev) /\ Count(last.prev) > 0)

\* C3 witness: a write() is rejected while another thread's DrainGuard waits
\* for readers.
C3_Witness ==
    /\ last.op = "write" /\ last.res = "Writer"
    /\ drainReady[last.thread] + drainWait[last.thread] + writers[last.thread] = 0
    /\ LiveDrains = 1 /\ LiveReaders > 0

\* C4: single writer token.  At most one DrainGuard or WriteGuard is live, the
\* flag is set exactly when one is, and a step that clears the flag is the
\* drop of a DrainGuard or of a WriteGuard.
C4_SingleWriterToken ==
    /\ LiveDrains + LiveWriters <= 1
    /\ FlagSet(atomic) = (LiveDrains + LiveWriters = 1)
    /\ (FlagSet(last.prev) /\ ~FlagSet(atomic)) =>
           last.op \in {"drop_drain", "drop_write"}

\* C4 witness: a ReadGuard is dropped while another thread's DrainGuard is
\* live, and the flag stays.
C4_Witness ==
    /\ last.op = "drop_read" /\ FlagSet(last.prev) /\ FlagSet(atomic)
    /\ LiveDrains = 1
    /\ drainReady[last.thread] + drainWait[last.thread] = 0

\* C5: drain correctness.  upgrade() on a not-ready DrainGuard returns Ok
\* exactly when no ReadGuard is live, and Err (the guard handed back) while
\* one is.
C5_DrainCorrectness ==
    (last.op = "upgrade" /\ last.arg = "wait") =>
        /\ (last.res = "Ok") = (LiveReaders = 0)
        /\ (last.res = "Err") = (LiveReaders > 0)
        /\ (last.res = "Err" => drainWait[last.thread] > 0)

\* C5 witness: upgrade() returned Err with a reader live, the reader dropped
\* its guard, and upgrade() then returned Ok.
C5_Witness ==
    /\ last.op = "upgrade" /\ last.arg = "wait" /\ last.res = "Ok"
    /\ hist.counting /\ hist.rel > 0

\* C6: writer liveness.  With no DrainGuard abandoned and every thread going
\* on, the holder of a DrainGuard ends up holding a WriteGuard.
C6_WriterLiveness ==
    \A t \in Threads :
        (drainReady[t] + drainWait[t] > 0) ~> (writers[t] > 0)

\* C6 witness: a not-ready DrainGuard became a WriteGuard while another
\* thread was in the middle of a read().
C6_Witness ==
    /\ last.op = "upgrade" /\ last.arg = "wait" /\ last.res = "Ok"
    /\ writers[last.thread] = 1
    /\ \E t \in Threads : t # last.thread /\ pc[t] = "cas"

\* C7: count conservation.  While the history counts, the reader count of the
\* word is the successful read()s less the ReadGuard drops, so that equally
\* many of both leave the count RWLease::new started with.
C7_CountConservation ==
    hist.counting =>
        /\ hist.rel <= hist.acq
        /\ Count(atomic) = hist.acq - hist.rel

\* C7 witness: as many ReadGuards dropped as were taken, the last of them
\* dropped while a write() had the flag set.
C7_Witness ==
    /\ hist.counting /\ hist.acq = MaxCount /\ hist.rel = hist.acq
    /\ last.op = "drop_read" /\ FlagSet(atomic)

\* C8: cancel-then-reopen.  The first read() after the drop of a DrainGuard
\* returns Ok when it loaded a word with the flag clear and the count below
\* its maximum and nobody changed the word before its CAS.
C8_CancelThenReopen ==
    (/\ ReadReturned /\ last.arg = "next"
     /\ ~last.raced
     /\ ~FlagSet(last.prev) /\ Count(last.prev) < MaxReaders)
        => last.res = "Ok"

\* C9: read() classification.  A read() of a word v that nobody changes in
\* the meantime returns Ok and leaves v + 1 when the flag is clear and the
\* count below its maximum, Blocked::Readers when the flag is clear and the
\* count at its maximum, Blocked::Writer when the flag is set.
C9_ReadClassification ==
    (ReadReturned /\ ~last.raced) =>
        LET v == last.prev
        IN  /\ (~FlagSet(v) /\ Count(v) < MaxReaders) =>
                   (last.res = "Ok" /\ atomic = v + 1)
            /\ (~FlagSet(v) /\ Count(v) = MaxReaders) => last.res = "Readers"
            /\ FlagSet(v) => last.res = "Writer"

\* C10: read() returns Blocked::LostRace only when another thread changed the
\* word between its load and its CAS.
C10_LostRaceOnlyWhenRaced ==
    (last.op = "read" /\ last.res = "LostRace") => last.raced

\* C11: non-blocking.  Every call is one step of its caller, except read(),
\* which is its load and then one CAS attempt: after any step but that load the
\* caller is outside every call, and a caller between the load and the CAS can
\* always take the CAS, whatever the word holds and whatever the others do.
C11_NonBlocking ==
    /\ \A t \in Threads : pc[t] = "cas" => ENABLED read_cas(t)
    /\ (last.op = "read" /\ last.res = "load") => pc[last.thread] = "cas"
    /\ (last.op # "new" /\ ~(last.op = "read" /\ last.res = "load")) =>
           pc[last.thread] = "idle"

\* C11 witness: a read() whose CAS lost a race returned after that one
\* attempt, while the other thread's write() has the flag set.
C11_Witness ==
    /\ last.op = "read" /\ last.res = "LostRace" /\ last.raced
    /\ pc[last.thread] = "idle"
    /\ FlagSet(atomic)

\* C12: the drop of a ReadGuard at a reader count of zero is detected and
\* stopped: it leaves the word as it found it and does not end as a release.
C12_NoWraparound ==
    (last.op = "drop_read" /\ Count(last.prev) = 0) =>
        (last.res = "abort" /\ atomic = last.prev)

\* C13: the drop of a WriteGuard leaves the idle word: the word is the flag
\* alone as long as a WriteGuard is live, and zero after its drop.
C13_WriteDropIdle ==
    /\ LiveWriters > 0 => atomic = mask
    /\ last.op = "drop_write" => (last.prev = mask /\ atomic = ZERO)

\* C13 witness: a WriteGuard is dropped while another thread's read(), which
\* loaded the word before the write(), has its CAS still to do.
C13_Witness ==
    /\ last.op = "drop_write" /\ atomic = ZERO
    /\ \E t \in Threads : t # last.thread /\ pc[t] = "cas"

\* C14: value visibility.  What a ReadGuard dereferences to is the value
\* new() stored or the last dropped WriteGuard left; the value differs from
\* that only while a WriteGuard, and no ReadGuard, is live.
C14_ValueVisibility ==
    /\ last.op = "deref" => last.val = committed
    /\ LiveReaders > 0 => value = committed
    /\ value # committed => (LiveWriters = 1 /\ LiveReaders = 0)
    /\ last.op = "deref_mut" => (value = last.val /\ LiveWriters = 1)

\* C14 witness: a ReadGuard dereferences to 124, which a WriteGuard stored
\* over new()'s 123 before it was dropped.
C14_Witness ==
    /\ last.op = "deref" /\ last.val = 124
    /\ committed = 124 /\ LiveReaders > 0

\* C15: cancelling a write changes only the flag.  The drop of a DrainGuard
\* clears the flag and leaves the reader count, which is still the number of
\* live ReadGuards.
C15_CancelFrame ==
    last.op = "drop_drain" =>
        /\ FlagSet(last.prev) /\ ~FlagSet(atomic)
        /\ Count(atomic) = Count(last.prev)
        /\ atomic = LiveReaders

\* C15 witness: a not-ready DrainGuard is dropped while the reader it waited
\* for still holds its ReadGuard.
C15_Witness ==
    /\ last.op = "drop_drain" /\ last.arg = "wait"
    /\ LiveReaders > 0 /\ atomic = LiveReaders

\* C16: one release per writer acquisition.  The flag is set as long as a
\* DrainGuard or WriteGuard is live; upgrade(), Ok or Err, leaves the word as
\* it is and the flag set; a drop of a DrainGuard or WriteGuard finds the flag
\* set, clears it and leaves no writer-side guard behind.
C16_OneRelease ==
    /\ WriterPending => FlagSet(atomic)
    /\ last.op = "upgrade" =>
           (atomic = last.prev /\ FlagSet(atomic) /\ LiveDrains + LiveWriters = 1)
    /\ (last.op = "upgrade" /\ last.res = "Ok") =>
           (LiveWriters = 1 /\ LiveDrains = 0)
    /\ last.op \in {"drop_drain", "drop_write"} =>
           (FlagSet(last.prev) /\ ~FlagSet(atomic) /\ ~WriterPending)

\* C16 witness: upgrade() returned Ok on a ready DrainGuard and the flag is
\* still set.
C16_Witness ==
    /\ last.op = "upgrade" /\ last.res = "Ok" /\ last.arg = "ready"
    /\ FlagSet(atomic) /\ LiveWriters = 1

\* C17: a ready DrainGuard never goes stale.  write() returns a ready guard
\* exactly when the word was zero; while a ready DrainGuard is live the word
\* is the flag alone and no ReadGuard is live; upgrade() on it returns Ok.
C17_ReadyNeverStale ==
    /\ last.op = "write" => ((last.res = "Ready") = (last.prev = ZERO))
    /\ Sum(drainReady) > 0 => (atomic = mask /\ LiveReaders = 0)
    /\ (last.op = "upgrade" /\ last.arg = "ready") =>
           (last.res = "Ok" /\ atomic = mask)

\* C17 witness: a ready DrainGuard is live while another thread's read(),
\* which loaded the idle word before the write(), has its CAS still to do.
C17_Witness ==
    /\ Sum(drainReady) = 1
    /\ \E t \in Threads : pc[t] = "cas" /\ current[t] = ZERO /\ drainReady[t] = 0

\* C18: reader-count bound.  A successful read() adds exactly one to a word
\* whose flag is clear and leaves the flag clear, and the live ReadGuards
\* never outnumber the largest count the word holds.
C18_CountBound ==
    /\ (last.op = "read" /\ last.res = "Ok") =>
           /\ atomic = last.prev + 1
           /\ ~FlagSet(last.prev) /\ ~FlagSet(atomic)
           /\ Count(atomic) = Count(last.prev) + 1
    /\ LiveReaders <= MaxReaders

\* C18 witness: a read() succeeded and the count is at its maximum.
C18_Witness ==
    /\ last.op = "read" /\ last.res = "Ok"
    /\ Count(atomic) = MaxReaders

\* C19: the reader count of the word is the number of live ReadGuards, and
\* the drop of a ReadGuard finds a count of one or more, takes one off and
\* leaves the flag as it was.
C19_CountIsLiveReaders ==
    /\ Count(atomic) = LiveReaders
    /\ last.op = "drop_read" =>
           /\ Count(last.prev) >= 1
           /\ Count(atomic) = Count(last.prev) - 1
           /\ FlagSet(atomic) = FlagSet(last.prev)

\* C19 witness: the last ReadGuard is dropped after a write() set the flag.
C19_Witness ==
    /\ last.op = "drop_read" /\ FlagSet(last.prev)
    /\ atomic = mask /\ LiveReaders = 0

\* The latest step is a failed attempt: a read() that returned a Blocked, a
\* write() that found the flag set, or an upgrade() that returned Err.
FailedAttempt ==
    \/ (last.op = "read" /\ last.res \in {"Readers", "Writer", "LostRace"})
    \/ (last.op = "write" /\ FlagSet(last.prev))
    \/ (last.op = "upgrade" /\ last.res = "Err")

\* C20: failed attempts have no effect.  A step that is a failed attempt
\* leaves the word, the value and every guard of every thread as they were.
C20_FailedNoEffect ==
    [][FailedAttempt' =>
          UNCHANGED <<atomic, value, readers, drainReady, drainWait, writers>>]_vars

\* C20 witness: upgrade() returned Err to a thread whose DrainGuard waits for
\* another thread's ReadGuard.
C20_Witness ==
    /\ last.op = "upgrade" /\ last.res = "Err"
    /\ drainWait[last.thread] = 1 /\ readers[last.thread] = 0
    /\ LiveReaders > 0

====
